---- MODULE Spec2Model ----
(***************************************************************************)
(* Model of src/main.py: the Suno session class (sign-in, OTP, session     *)
(* establishment, token renewal, generation, status, download) and the     *)
(* orchestration in main() (pool construction, fallback loop, completion   *)
(* poll loop, download loop).  The remote services are the environment:    *)
(* every HTTP response is an input drawn from a small set.                 *)
(***************************************************************************)
EXTENDS Integers, Sequences, FiniteSets, TLC

\* ------------------------------------------------------------------ bounds
MaxAccounts == 2
MaxIds == 2
MaxPolls == 2

\* --------------------------------------------------------- python values
None == "<None>"
PyStr(x) == IF x = None THEN "None" ELSE x
Truthy(x) == x # None /\ x # ""

\* text is a sequence of words; `needle in text` is contiguous containment
Contains(needle, text) ==
    \E p \in 0..(Len(text) - Len(needle)) :
        SubSeq(text, p + 1, p + Len(needle)) = needle

HTTP_OK == 200
HTTP_ERR == 401

\* query parameter _clerk_js_version of the identity-service URLs
SIGN_IN_VERSION == "5.26.3"
RENEW_VERSION == "4.72.0-snapshot.vc141245"

\* exception messages raised by the code (str(e)), as word sequences
NoExc == <<>>
E_SID == <<"Session", "ID", "is", "not", "set.", "Cannot", "renew", "token.">>
E_OTP == <<"Failed", "to", "verify", "OTP">>
E_RENEW == <<"Token", "renewal", "failed", "with", "status:", "401">>
E_GEN == <<"Song", "generation", "failed">>
E_NOURL == <<"No", "audio", "URL", "found">>
E_DL == <<"Song", "download", "failed">>
E_ATTR == <<"'NoneType'", "object", "has", "no", "attribute", "'get'">>
E_KEY == <<"'clips'">>
E_INDEX == <<"list", "index", "out", "of", "range">>

\* ------------------------------------------------ values the remote sends
AssetIds == <<"s1", "s2", "s3", "s4">>
Statuses == {"pending", "streaming", "complete"}
SessionIds == {"sess_A"}
INSUFFICIENT == <<"Insufficient", "credits">>
QuotaDetails == { <<"Insufficient", "credits">>,
                  <<"Account", "has", "Insufficient", "credits">> }
OtherDetails == { <<"Server", "error">>, <<>> }

NoResponse == [status_code |-> 0]

NoAttempt == [present |-> FALSE, id |-> None, supported_first_factors |-> <<>>]
Attempts ==
    { [present |-> TRUE, id |-> "sia_1", supported_first_factors |-> f] :
        f \in { <<>>, << [phone_number_id |-> "pn_1"] >> } }

SignInResponses ==
    { [status_code |-> HTTP_OK, response |-> a, Authorization |-> "auth_tok"] :
        a \in Attempts \cup {NoAttempt} }
    \cup { [status_code |-> HTTP_ERR, response |-> NoAttempt, Authorization |-> None] }

OtpResponses == { [status_code |-> c] : c \in {HTTP_OK, HTTP_ERR} }

SubmitResponses ==
    { [status_code |-> HTTP_OK, created_session_id |-> s, last_active_session_id |-> s] :
        s \in SessionIds \cup {None} }
    \cup { [status_code |-> HTTP_ERR, created_session_id |-> None,
            last_active_session_id |-> None] }

\* the identity service issues a new token on every successful renewal
FreshJwt(a, cnt) == "jwt_" \o ToString(a) \o "_" \o ToString(cnt)
RenewResponses(a, cnt) ==
    { [status_code |-> HTTP_OK, jwt |-> FreshJwt(a, cnt)],
      [status_code |-> HTTP_ERR, jwt |-> None] }

\* the id lists a generation answer may carry: prefixes of AssetIds
IdLists == { SubSeq(AssetIds, 1, m) : m \in 0..MaxIds }

GenResponses ==
    { [status_code |-> HTTP_OK, has_clips |-> TRUE, clips |-> l, detail |-> <<>>] :
        l \in IdLists }
    \cup { [status_code |-> HTTP_OK, has_clips |-> FALSE, clips |-> <<>>, detail |-> <<>>] }
    \cup { [status_code |-> HTTP_ERR, has_clips |-> FALSE, clips |-> <<>>, detail |-> d] :
            d \in QuotaDetails \cup OtherDetails }

\* a feed answer for a batch: every requested id is reported complete, except
\* at most one, which is reported with another status or left out; or the
\* answer lists no clip at all; or the request fails
Deviations == Statuses \cup {"absent"}
ClipsFor(ids, q, d) ==
    SelectSeq([p \in 1..Len(ids) |->
                 [id |-> ids[p], status |-> IF p = q THEN d ELSE "complete"]],
              LAMBDA c : c.status # "absent")
StatusResponses(ids) ==
    { [status_code |-> HTTP_OK, clips |-> ClipsFor(ids, q, d)] :
        q \in 1..Len(ids), d \in Deviations }
    \cup { [status_code |-> HTTP_OK, clips |-> <<>>],
           [status_code |-> HTTP_ERR, clips |-> <<>>] }

\* a feed answer for one id: the record list (possibly empty)
FetchResponses ==
    { [status_code |-> HTTP_OK, records |-> << [status |-> st, audio_url |-> u] >>] :
        st \in {"pending", "complete"}, u \in {None, "url"} }
    \cup { [status_code |-> HTTP_OK, records |-> <<>>],
           [status_code |-> HTTP_ERR, records |-> <<>>] }

\* ------------------------------------------------------------------ state
VARIABLES
    pc,             \* position of main(): the remote call it is about to make
    n,              \* number of unique phone numbers entered
    i,              \* account whose Suno object is being constructed
    attempt,        \* sign_in_attempt of the construction in progress
    sess,           \* per account: the fields of its Suno object
    suno_sessions,  \* the pool: accounts whose construction returned
    k,              \* position of the fallback loop in suno_sessions
    suno,           \* the loop variable `suno` of main()
    song_ids,       \* the variable song_ids of main()
    gen_calls,      \* generate calls made so far: account and outcome
    polls,          \* status polls made so far, counted up to MaxPolls
    j,              \* position of the download loop in song_ids
    audio_url,      \* audio_url handed to _download_audio
    downloaded,     \* ids whose file is on disk, whole or truncated
    ready,          \* what the last check_song_status returned
    issued,         \* per account: renewal requests the identity service got
    stale,          \* per account: the Authorization headers held when a
                    \* renew() on its session failed
    recent,         \* per account: the last two calls made on its session
    response,       \* the response received by the last step
    exc             \* the exception raised by the last step, NoExc if none

vars == << pc, n, i, attempt, sess, suno_sessions, k, suno, song_ids, gen_calls,
           polls, j, audio_url, downloaded, ready, issued, stale, recent, response,
           exc >>

Accounts == 1..MaxAccounts

\* song_ids is None, or a list of ids
NoneIds == [is_none |-> TRUE, ids |-> <<>>]
ListIds(l) == [is_none |-> FALSE, ids |-> l]
\* the test `song_ids is not None` in place of `song_ids`
TruthyIds_not_none(v) == ~v.is_none
TruthyIds(v) == ~v.is_none /\ Len(v.ids) > 0

\* Suno.__init__: the fields before sign_in() runs
NewSuno ==
    [ sid |-> None, current_token |-> None, authorization_token |-> None,
      Authorization |-> None ]

\* a call on a session: what was asked, whether a request went out, whether it
\* was answered 200, the Authorization header it carried, the client version in
\* its URL and the asset it was made for
NoCall == [op |-> "none", sent |-> FALSE, ok |-> FALSE, auth |-> None,
           ver |-> None, asset |-> 0]
Call(op, sent, ok, auth, ver, asset) ==
    [op |-> op, sent |-> sent, ok |-> ok, auth |-> auth, ver |-> ver, asset |-> asset]
Push(a, c) == [recent EXCEPT ![a] = << @[2], c >>]

Init ==
    /\ pc = "sign_in"
    /\ n \in 1..MaxAccounts
    /\ i = 1
    /\ attempt = NoAttempt
    /\ sess = [a \in Accounts |-> NewSuno]
    /\ suno_sessions = <<>>
    /\ k = 0
    /\ suno = 0
    /\ song_ids = NoneIds
    /\ gen_calls = <<>>
    /\ polls = 0
    /\ j = 0
    /\ audio_url = None
    /\ downloaded = <<>>
    /\ ready = FALSE
    /\ issued = [a \in Accounts |-> 0]
    /\ stale = [a \in Accounts |-> {}]
    /\ recent = [a \in Accounts |-> << NoCall, NoCall >>]
    /\ response = NoResponse
    /\ exc = NoExc

\* --------------------------------------------------------- pool construction
\* Suno(phone_number) returned: main() appends it and goes on to the next
\* phone number, or to the fallback loop after the last one
Constructed ==
    /\ suno_sessions' = Append(suno_sessions, i)
    /\ attempt' = NoAttempt
    /\ IF i < n
         THEN pc' = "sign_in" /\ i' = i + 1 /\ k' = k
         ELSE pc' = "generate" /\ i' = i /\ k' = 1

\* an exception left Suno(phone_number): nothing in main() catches it
Crashed ==
    /\ pc' = "crashed"
    /\ UNCHANGED << i, attempt, suno_sessions, k >>

\* the first lines of request_otp, before its request
request_otp_entry(sign_in_attempt) ==
    IF ~sign_in_attempt.present THEN "raise"
    ELSE IF sign_in_attempt.supported_first_factors = <<>> THEN "return"
    ELSE "post"

\* Suno.sign_in: what follows the answer r
sign_in(r) ==
    IF r.status_code = HTTP_OK THEN request_otp_entry(r.response) ELSE "return"

\* request_otp that asks for the code whatever prepare_first_factor answered
request_otp_unchecked(r) == "submit_otp"

\* Suno.request_otp: what follows the answer r of prepare_first_factor
request_otp(r) ==
    IF r.status_code = HTTP_OK THEN "submit_otp" ELSE "return"

\* Suno.submit_otp: what follows the answer r of attempt_first_factor
submit_otp(r) ==
    IF r.status_code = HTTP_OK
      THEN IF Truthy(r.created_session_id) THEN "_keep_alive" ELSE "raise_sid"
      ELSE "raise_otp"

SignIn(r) ==
    /\ pc = "sign_in"
    /\ response' = r
    /\ recent' = Push(i, Call("sign_in", TRUE, r.status_code = HTTP_OK, None,
                              SIGN_IN_VERSION, 0))
    /\ sess' = IF r.status_code = HTTP_OK
                 THEN [sess EXCEPT ![i].authorization_token = r.Authorization]
                 ELSE sess
    /\ CASE sign_in(r) = "raise" -> exc' = E_ATTR /\ Crashed
         [] sign_in(r) = "return" -> exc' = NoExc /\ Constructed
         [] OTHER -> /\ exc' = NoExc
                     /\ pc' = "request_otp"
                     /\ attempt' = r.response
                     /\ UNCHANGED << i, suno_sessions, k >>
    /\ UNCHANGED << n, suno, song_ids, gen_calls, polls, j, audio_url, downloaded,
                    ready, issued, stale >>

RequestOtp(r) ==
    /\ pc = "request_otp"
    /\ response' = r
    /\ recent' = Push(i, Call("prepare_first_factor", TRUE, r.status_code = HTTP_OK,
                              sess[i].authorization_token, SIGN_IN_VERSION, 0))
    /\ exc' = NoExc
    /\ IF request_otp(r) = "submit_otp"
         THEN pc' = "submit_otp" /\ UNCHANGED << i, attempt, suno_sessions, k >>
         ELSE Constructed
    /\ UNCHANGED << n, sess, suno, song_ids, gen_calls, polls, j, audio_url,
                    downloaded, ready, issued, stale >>

SubmitOtp(r) ==
    /\ pc = "submit_otp"
    /\ response' = r
    /\ recent' = Push(i, Call("attempt_first_factor", TRUE, r.status_code = HTTP_OK,
                              sess[i].authorization_token, SIGN_IN_VERSION, 0))
    /\ sess' = IF r.status_code = HTTP_OK
                 THEN [sess EXCEPT ![i].current_token = r.last_active_session_id,
                                   ![i].sid = r.created_session_id]
                 ELSE sess
    /\ CASE submit_otp(r) = "_keep_alive" ->
                /\ exc' = NoExc
                /\ pc' = "init_keep_alive"
                /\ UNCHANGED << i, attempt, suno_sessions, k >>
         [] submit_otp(r) = "raise_sid" -> exc' = E_SID /\ Crashed
         [] OTHER -> exc' = E_OTP /\ Crashed
    /\ UNCHANGED << n, suno, song_ids, gen_calls, polls, j, audio_url, downloaded,
                    ready, issued, stale >>

\* _keep_alive that logs a failed renewal without raising
_keep_alive_no_raise(self, r) ==
    IF ~Truthy(self.sid)
      THEN [self |-> self, exc |-> E_SID, sent |-> FALSE]
      ELSE IF r.status_code = HTTP_OK
        THEN [self |-> [self EXCEPT !.current_token = r.jwt,
                                    !.Authorization = "Bearer " \o PyStr(r.jwt)],
              exc |-> NoExc, sent |-> TRUE]
        ELSE [self |-> self, exc |-> NoExc, sent |-> TRUE]

\* _keep_alive that stores the new token but leaves the session header alone
_keep_alive_no_header(self, r) ==
    IF ~Truthy(self.sid)
      THEN [self |-> self, exc |-> E_SID, sent |-> FALSE]
      ELSE IF r.status_code = HTTP_OK
        THEN [self |-> [self EXCEPT !.current_token = r.jwt],
              exc |-> NoExc, sent |-> TRUE]
        ELSE [self |-> self, exc |-> E_RENEW, sent |-> TRUE]

\* _keep_alive that forgets the session when its renewal is refused
_keep_alive_drop_sid(self, r) ==
    IF ~Truthy(self.sid)
      THEN [self |-> self, exc |-> E_SID, sent |-> FALSE]
      ELSE IF r.status_code = HTTP_OK
        THEN [self |-> [self EXCEPT !.current_token = r.jwt,
                                    !.Authorization = "Bearer " \o PyStr(r.jwt)],
              exc |-> NoExc, sent |-> TRUE]
        ELSE [self |-> [self EXCEPT !.sid = None], exc |-> E_RENEW, sent |-> TRUE]

\* _keep_alive without the check of self.sid
_keep_alive_no_guard(self, r) ==
    IF r.status_code = HTTP_OK
      THEN [self |-> [self EXCEPT !.current_token = r.jwt,
                                  !.Authorization = "Bearer " \o PyStr(r.jwt)],
            exc |-> NoExc, sent |-> TRUE]
      ELSE [self |-> self, exc |-> E_RENEW, sent |-> TRUE]

\* Suno._keep_alive on the object `self`, the renewal being answered r: the
\* object afterwards, the exception raised and whether a request was sent
Bearer(token) == "Bearer " \o PyStr(token)
_keep_alive(self, r) ==
    IF ~Truthy(self.sid)
      THEN [self |-> self, exc |-> E_SID, sent |-> FALSE]
      ELSE IF r.status_code = HTTP_OK
        THEN [self |-> [self EXCEPT !.current_token = r.jwt,
                                    !.Authorization = Bearer(r.jwt)],
              exc |-> NoExc, sent |-> TRUE]
        ELSE [self |-> self, exc |-> E_RENEW, sent |-> TRUE]

RenewCall(self, res, r, asset) ==
    Call("renew", res.sent, res.sent /\ r.status_code = HTTP_OK,
         self.Authorization, IF res.sent THEN RENEW_VERSION ELSE None, asset)

\* the requests the renewal may be answered with; none is sent without a sid
RenewAnswers(a) ==
    IF a \in Accounts /\ Truthy(sess[a].sid)
      THEN RenewResponses(a, issued[a])
      ELSE {NoResponse}
Issue(a, res) == IF res.sent THEN [issued EXCEPT ![a] = @ + 1] ELSE issued
\* the header the session held when its renewal raised is no longer good
Expire(a, res) ==
    IF res.exc # NoExc THEN [stale EXCEPT ![a] = @ \cup {sess[a].Authorization}]
                       ELSE stale

\* the initial renewal, called by submit_otp
InitKeepAlive(r) ==
    /\ pc = "init_keep_alive"
    /\ LET res == _keep_alive(sess[i], r) IN
        /\ response' = r
        /\ recent' = Push(i, RenewCall(sess[i], res, r, 0))
        /\ sess' = [sess EXCEPT ![i] = res.self]
        /\ issued' = Issue(i, res)
        /\ stale' = Expire(i, res)
        /\ exc' = res.exc
        /\ IF res.exc = NoExc THEN Constructed ELSE Crashed
    /\ UNCHANGED << n, suno, song_ids, gen_calls, polls, j, audio_url, downloaded,
                    ready >>

\* ------------------------------------------------------------ fallback loop
\* _handle_generation_error that logs every error and raises none
_handle_generation_error_silent(r) == NoExc

\* Suno._handle_generation_error: the exception it raises, NoExc if it returns
_handle_generation_error(r) ==
    IF Contains(INSUFFICIENT, r.detail) THEN NoExc ELSE E_GEN

\* Suno.generate_song: the value returned, or the exception raised
generate_song(r) ==
    IF r.status_code = HTTP_OK
      THEN IF r.has_clips
             THEN [ret |-> ListIds(r.clips), exc |-> NoExc]
             ELSE [ret |-> NoneIds, exc |-> E_KEY]
      ELSE [ret |-> NoneIds, exc |-> _handle_generation_error(r)]

\* LoopVerdict with the break after a successful generation left out
LoopVerdict_no_break(res) ==
    IF res.exc = NoExc
      THEN "next"
      ELSE IF Contains(INSUFFICIENT, res.exc) THEN "next" ELSE "break"

\* LoopVerdict that breaks as soon as generate_song returns without raising
LoopVerdict_break_on_return(res) ==
    IF res.exc = NoExc
      THEN IF ~res.ret.is_none THEN "break" ELSE "next"
      ELSE IF Contains(INSUFFICIENT, res.exc) THEN "next" ELSE "break"

\* LoopVerdict that tries every session, whatever the earlier ones returned
LoopVerdict_try_all(res) == "next"

\* what one pass of the for loop of main() does with the outcome of
\* generate_song: "break" or "next"
LoopVerdict(res) ==
    IF res.exc = NoExc
      THEN IF TruthyIds(res.ret) THEN "break" ELSE "next"
      ELSE IF Contains(INSUFFICIENT, res.exc) THEN "next" ELSE "break"

Generate(r) ==
    /\ pc = "generate"
    /\ LET a == suno_sessions[k]
           res == generate_song(r)
           ids == IF res.exc = NoExc THEN res.ret ELSE song_ids
           over == LoopVerdict(res) = "break" \/ k = Len(suno_sessions)
       IN
        /\ suno' = a
        /\ response' = r
        /\ exc' = res.exc
        /\ song_ids' = ids
        /\ gen_calls' = Append(gen_calls, [s |-> a, response |-> r])
        /\ recent' = Push(a, Call("generate", TRUE, r.status_code = HTTP_OK,
                                  sess[a].Authorization, None, 0))
        /\ IF ~over
             THEN pc' = "generate" /\ k' = k + 1 /\ j' = j
             ELSE IF TruthyIds(ids)
               THEN pc' = "poll" /\ k' = k /\ j' = j
               ELSE pc' = "exhausted" /\ k' = k /\ j' = j
    /\ UNCHANGED << n, i, attempt, sess, suno_sessions, polls, audio_url, downloaded,
                    ready, issued, stale >>

\* --------------------------------------------------------- completion poll
\* READY_STATUSES that also takes pending for done
READY_STATUSES_with_pending == {"pending", "streaming", "complete"}
READY_STATUSES == {"streaming", "complete"}

\* check_song_status that takes a refused request for a ready batch
check_song_status_fail_ready(ids, r) ==
    IF r.status_code = HTTP_OK
      THEN \A p \in 1..Len(r.clips) : r.clips[p].status \in {"streaming", "complete"}
      ELSE TRUE

\* Suno.check_song_status(song_ids), the feed being answered r
check_song_status(ids, r) ==
    IF r.status_code = HTTP_OK
      THEN \A p \in 1..Len(r.clips) : r.clips[p].status \in READY_STATUSES
      ELSE FALSE

CheckStatus(r) ==
    /\ pc = "poll"
    /\ LET res == check_song_status(song_ids.ids, r) IN
        /\ response' = r
        /\ ready' = res
        /\ polls' = IF polls < MaxPolls THEN polls + 1 ELSE polls
        /\ exc' = NoExc
        /\ recent' = Push(suno, Call("status", TRUE, r.status_code = HTTP_OK,
                                     sess[suno].Authorization, None, 0))
        /\ IF res THEN pc' = "dl_keep_alive" /\ j' = 1
                  ELSE pc' = "poll" /\ j' = j
    /\ UNCHANGED << n, i, attempt, sess, suno_sessions, k, suno, song_ids, gen_calls,
                    audio_url, downloaded, issued, stale >>

\* ------------------------------------------------------------ download loop
\* the except clause of the download loop: log, go on with the next id
NextSong ==
    IF j < Len(song_ids.ids)
      THEN pc' = "dl_keep_alive" /\ j' = j + 1
      ELSE pc' = "done" /\ j' = j

DownloadKeepAlive(r) ==
    /\ pc = "dl_keep_alive"
    /\ LET res == _keep_alive(sess[suno], r) IN
        /\ response' = r
        /\ recent' = Push(suno, RenewCall(sess[suno], res, r, j))
        /\ sess' = [sess EXCEPT ![suno] = res.self]
        /\ issued' = Issue(suno, res)
        /\ stale' = Expire(suno, res)
        /\ exc' = res.exc
        /\ IF res.exc = NoExc THEN pc' = "dl_song" /\ j' = j ELSE NextSong
    /\ UNCHANGED << n, i, attempt, suno_sessions, k, suno, song_ids, gen_calls, polls,
                    audio_url, downloaded, ready >>

\* Suno.download_song up to the call of _download_audio
download_song(r) ==
    IF r.status_code = HTTP_OK
      THEN IF r.records = <<>>
             THEN [exc |-> E_INDEX, audio_url |-> None]
             ELSE IF Truthy(r.records[1].audio_url)
               THEN [exc |-> NoExc, audio_url |-> r.records[1].audio_url]
               ELSE [exc |-> E_NOURL, audio_url |-> None]
      ELSE [exc |-> E_DL, audio_url |-> None]

DownloadSong(r) ==
    /\ pc = "dl_song"
    /\ LET res == download_song(r) IN
        /\ response' = r
        /\ recent' = Push(suno, Call("fetch", TRUE, r.status_code = HTTP_OK,
                                     sess[suno].Authorization, None, j))
        /\ exc' = res.exc
        /\ audio_url' = res.audio_url
        /\ IF res.exc = NoExc THEN pc' = "dl_audio" /\ j' = j ELSE NextSong
    /\ UNCHANGED << n, i, attempt, sess, suno_sessions, k, suno, song_ids, gen_calls,
                    polls, downloaded, ready, issued, stale >>

\* the answer to the audio GET: its status, and whether the body arrives
\* whole or the connection drops while it is streamed
HTTP_NO_CONTENT == 204
Transfers == {"whole", "cut"}
AudioResponses ==
    { [status_code |-> c, body |-> b] :
        c \in {HTTP_OK, HTTP_NO_CONTENT}, b \in Transfers }
    \cup { [status_code |-> HTTP_ERR, body |-> "whole"] }

\* Response.raise_for_status(): raises on a 4xx or 5xx status
raise_for_status(r) == r.status_code >= 400 /\ r.status_code < 600

\* Suno._download_audio: a status that raises leaves no file; otherwise the
\* file is opened before the body is read, so a transfer that drops leaves the
\* file on disk, truncated, and still raises
_download_audio(r) ==
    IF raise_for_status(r)
      THEN [file |-> FALSE, exc |-> E_DL]
      ELSE IF r.body = "cut"
        THEN [file |-> TRUE, exc |-> E_DL]
        ELSE [file |-> TRUE, exc |-> NoExc]

DownloadAudio(r) ==
    /\ pc = "dl_audio"
    /\ LET res == _download_audio(r) IN
        /\ response' = r
        /\ downloaded' = IF res.file THEN Append(downloaded, song_ids.ids[j])
                                     ELSE downloaded
        /\ exc' = res.exc
    /\ audio_url' = None
    /\ NextSong
    /\ UNCHANGED << n, i, attempt, sess, suno_sessions, k, suno, song_ids, gen_calls,
                    polls, ready, issued, stale, recent >>

Next ==
    \/ \E r \in SignInResponses : SignIn(r)
    \/ \E r \in OtpResponses : RequestOtp(r)
    \/ \E r \in SubmitResponses : SubmitOtp(r)
    \/ \E r \in RenewAnswers(i) : InitKeepAlive(r)
    \/ \E r \in GenResponses : Generate(r)
    \/ \E r \in StatusResponses(song_ids.ids) : CheckStatus(r)
    \/ \E r \in RenewAnswers(suno) : DownloadKeepAlive(r)
    \/ \E r \in FetchResponses : DownloadSong(r)
    \/ \E r \in AudioResponses : DownloadAudio(r)

Spec == Init /\ [][Next]_vars

\* main() is one thread that runs on: every sleep ends and every request is
\* answered, so the step it is about to take is eventually taken
LiveSpec == Init /\ [][Next]_vars /\ WF_vars(Next)

\* ---------------------------------------------------------------- claims
\* how the generation service answered a generate call
IsSuccess(r) == r.status_code = HTTP_OK /\ r.has_clips /\ r.clips # <<>>
IsQuota(r) == r.status_code # HTTP_OK /\ Contains(INSUFFICIENT, r.detail)
IsHardFailure(r) == r.status_code # HTTP_OK /\ ~Contains(INSUFFICIENT, r.detail)

FirstSuccessAt(m) ==
    /\ m \in 1..Len(gen_calls)
    /\ IsSuccess(gen_calls[m].response)
    /\ \A q \in 1..(m - 1) : IsQuota(gen_calls[q].response)

\* C1: when the first m-1 sessions of the pool, in pool order, answer generate
\* with the insufficient-quota error and the m-th answers with asset ids, the
\* job's ids are the ids of session m, exactly m generate calls are made (one
\* on each of the first m sessions) and none follows.
C1_FirstSuccessWins ==
    \A m \in 1..MaxAccounts :
        FirstSuccessAt(m) =>
            /\ Len(gen_calls) = m
            /\ \A q \in 1..m : gen_calls[q].s = suno_sessions[q]
            /\ song_ids = ListIds(gen_calls[m].response.clips)
            /\ suno = suno_sessions[m]
            /\ pc \notin {"generate", "exhausted"}

C1_Witness ==
    /\ FirstSuccessAt(2)
    /\ Len(suno_sessions) = 2
    /\ pc = "done"

\* C2: when a generate call is answered with a non-quota error, no generate
\* call is made on any later session and the run ends without a job.
C2_HardFailureStops ==
    \A m \in 1..Len(gen_calls) :
        IsHardFailure(gen_calls[m].response) =>
            /\ Len(gen_calls) = m
            /\ pc = "exhausted"
            /\ ~TruthyIds(song_ids)

C2_Witness ==
    /\ Len(gen_calls) = 1
    /\ IsHardFailure(gen_calls[1].response)
    /\ Len(suno_sessions) > 1
    /\ pc = "exhausted"

\* a session reached Authenticated: its session identifier is set
Authenticated(a) == Truthy(sess[a].sid)

\* C3: the fallback loop never issues a generate call on the session of an
\* account that never reached Authenticated.
C3_UnauthenticatedExcluded ==
    \A m \in 1..Len(gen_calls) : Authenticated(gen_calls[m].s)

\* C4: a failure while constructing one account's session (OTP rejected,
\* session id missing from the OTP answer, initial renewal refused) does not
\* abort the program: the remaining accounts are constructed and the fallback
\* loop runs.
C4_ConstructionFailureTolerated ==
    ~(pc = "crashed" /\ exc \in {E_OTP, E_SID, E_RENEW})

\* a call that was a renewal the identity service refused
RenewalFailed(c) == c.op = "renew" /\ c.sent /\ ~c.ok

\* C5: after a renew() on a session failed with RenewalFailed, no later call
\* (renew, status, fetch, generate) is issued on that session.
C5_NoCallAfterRenewalFailed ==
    \A a \in Accounts : ~(RenewalFailed(recent[a][1]) /\ recent[a][2].op # "none")

\* C6: every metadata fetch is immediately preceded, on the owning session, by
\* a successful renew() made for the same asset; renew() is called once per
\* asset, and every asset the download loop has passed got its renew() call.
C6_RenewOncePerFetch ==
    /\ \A a \in Accounts :
        LET p == recent[a][1]
            c == recent[a][2]
        IN /\ c.op = "fetch" =>
                p.op = "renew" /\ p.sent /\ p.ok /\ p.asset = c.asset
           /\ (c.op = "renew" /\ c.asset > 0) =>
                ~(p.asset = c.asset /\ p.op \in {"renew", "fetch"})
    /\ pc \in {"dl_song", "dl_audio"} =>
        /\ recent[suno][2].asset = j
        /\ recent[suno][2].op = IF pc = "dl_song" THEN "renew" ELSE "fetch"
    /\ pc = "dl_keep_alive" =>
        recent[suno][2].asset = j - 1 /\ recent[suno][2].op \in {"status", "renew", "fetch"}
    /\ pc = "done" =>
        recent[suno][2].asset = Len(song_ids.ids) /\ recent[suno][2].op \in {"renew", "fetch"}

C6_Witness ==
    /\ pc = "done"
    /\ Len(song_ids.ids) = 2
    /\ recent[suno][2].op = "fetch"
    /\ Len(downloaded) = 2

\* C7: every privileged request on a session (generate, status, fetch) is
\* immediately preceded by a renew() call on that session; stated of the
\* sessions that authenticated.
C7_RenewBeforePrivileged ==
    \A a \in Accounts :
        (Authenticated(a) /\ recent[a][2].op \in {"generate", "status", "fetch"}) =>
            recent[a][1].op = "renew"

\* the account on which the step about to be taken calls renew()
RenewCalledOn(a) ==
    \/ pc = "init_keep_alive" /\ a = i
    \/ pc = "dl_keep_alive" /\ a = suno

\* C8: renew() on a session whose session identifier is not set fails with
\* NoActiveSession, sends no renewal request and leaves the bearer credential,
\* the Authorization header and the session identifier as they were.
C8_RenewWithoutSession ==
    [][ \A a \in Accounts :
          (RenewCalledOn(a) /\ ~Truthy(sess[a].sid)) =>
              /\ exc' = E_SID
              /\ sess'[a] = sess[a]
              /\ issued'[a] = issued[a]
              /\ recent'[a][2].op = "renew" /\ ~recent'[a][2].sent ]_vars

C8_Witness ==
    /\ pc \in {"dl_keep_alive", "done"}
    /\ recent[suno][2].op = "renew"
    /\ ~recent[suno][2].sent
    /\ exc = E_SID
    /\ sess[suno].sid = None /\ sess[suno].Authorization = None

\* the state right after a status call: response is the feed's answer to it
AfterStatus ==
    /\ pc \in {"poll", "dl_keep_alive"}
    /\ suno \in Accounts
    /\ recent[suno][2].op = "status"

\* every requested id is listed in the answer with status streaming or complete
BatchReady(ids, r) ==
    /\ r.status_code = HTTP_OK
    /\ \A p \in 1..Len(ids) :
         \E q \in 1..Len(r.clips) :
            r.clips[q].id = ids[p] /\ r.clips[q].status \in {"streaming", "complete"}

\* C9: status reports the batch ready if and only if every member of the
\* requested batch has status streaming or complete; a pending member, a
\* member missing from the answer or a failed call makes it not ready.
C9_ReadyIffAllMembersReady ==
    AfterStatus => (ready <=> BatchReady(song_ids.ids, response))

HandshakeOps == {"sign_in", "prepare_first_factor", "attempt_first_factor"}

\* C10: on one account's session sign-in comes first, prepare_first_factor
\* only right after a successful sign-in, attempt_first_factor only right
\* after a successful prepare_first_factor, a renewal request only once
\* attempt_first_factor has succeeded, and a successful attempt_first_factor
\* is followed at once by the initial renewal.
C10_HandshakeOrder ==
    \A a \in Accounts :
        LET p == recent[a][1]
            c == recent[a][2]
        IN /\ c.op = "sign_in" => p.op = "none"
           /\ c.op = "prepare_first_factor" => p.op = "sign_in" /\ p.ok
           /\ c.op = "attempt_first_factor" => p.op = "prepare_first_factor" /\ p.ok
           /\ (c.op = "renew" /\ c.sent) =>
                /\ Authenticated(a)
                /\ p.op \notin {"none", "sign_in", "prepare_first_factor"}
                /\ p.op = "attempt_first_factor" => p.ok
           /\ p.op = "attempt_first_factor" => c.op = "renew" /\ c.sent
           /\ (p.op \in HandshakeOps /\ ~p.ok) => c.op \notin HandshakeOps \cup {"renew"}
           /\ (c.op = "attempt_first_factor" /\ c.ok /\ pc # "crashed") =>
                pc = "init_keep_alive" /\ i = a

C10_Witness ==
    /\ pc = "generate"
    /\ recent[1][1].op = "attempt_first_factor" /\ recent[1][1].ok
    /\ recent[1][2].op = "renew" /\ recent[1][2].ok


\* the fallback loop is over
LoopOver == pc \in {"exhausted", "poll", "dl_keep_alive", "dl_song", "dl_audio", "done"}

\* calls made for a job: status polls, and renewals and fetches made for an asset
JobCall(c) == c.op \in {"status", "fetch"} \/ (c.op = "renew" /\ c.asset > 0)

\* C11: if no generate call is answered with asset ids, the run ends as
\* AllSessionsExhausted: main returns, and no status poll, download-time
\* renewal, metadata fetch or download is ever issued.
C11_AllSessionsExhausted ==
    (LoopOver /\ \A m \in 1..Len(gen_calls) : ~IsSuccess(gen_calls[m].response)) =>
        /\ pc = "exhausted"
        /\ ~ENABLED Next
        /\ polls = 0 /\ j = 0 /\ downloaded = <<>>
        /\ \A a \in Accounts : ~JobCall(recent[a][1]) /\ ~JobCall(recent[a][2])

C11_Witness ==
    /\ pc = "exhausted"
    /\ Len(gen_calls) = 2
    /\ \A m \in 1..2 : IsQuota(gen_calls[m].response)

\* a status request the feed refused
StatusFailed(c) == c.op = "status" /\ c.sent /\ ~c.ok

\* C12: a failed status request is not issued again: the call after a failed
\* status request on a session is never another status request.
C12_FailedStatusNotRetried ==
    \A a \in Accounts :
        Authenticated(a) => ~(StatusFailed(recent[a][1]) /\ recent[a][2].op = "status")

\* requests that need the bearer credential
Privileged == {"generate", "status", "fetch"}

\* C13: once a renew() on a session has failed, no generate, status or fetch
\* request of that session carries the bearer credential the session held
\* when the renewal failed.
C13_NoStaleBearer ==
    \A a \in Accounts :
        recent[a][2].op \in Privileged => recent[a][2].auth \notin stale[a]

C13_Witness ==
    /\ suno \in Accounts
    /\ Authenticated(suno)
    /\ stale[suno] # {}
    /\ recent[suno][2].op = "fetch"

\* C14: once a session's session identifier is set to a non-empty value, no
\* later step (sign-in step, renewal, generation, status check, download)
\* changes it.
C14_SessionIdStable ==
    [][ \A a \in Accounts :
          Truthy(sess[a].sid) => sess'[a].sid = sess[a].sid ]_vars

C14_Witness ==
    /\ pc = "done"
    /\ Authenticated(suno)
    /\ stale[suno] # {}
    /\ issued[suno] > 2

\* the client versions carried by the identity-service calls still on record
VersionsSent ==
    { recent[a][x].ver : a \in Accounts, x \in 1..2 } \ {None}

\* C15: every identity-service call of a run (sign-in, prepare_first_factor,
\* attempt_first_factor, token renewal) carries the same client-version value.
C15_OneClientVersion == Cardinality(VersionsSent) <= 1

\* C16: download_song fails with NoAudioUrl only on a completed record that
\* carries no URL; on a record that is still pending it fails otherwise.
C16_NoAudioUrlOnlyWhenComplete ==
    exc = E_NOURL => response.records[1].status = "complete"

\* something was done towards a download: the download loop was entered, or
\* a renewal or fetch was made for an asset, or a file was written
DownloadBegun ==
    \/ pc \in {"dl_keep_alive", "dl_song", "dl_audio", "done"}
    \/ j > 0
    \/ downloaded # <<>>
    \/ \E a \in Accounts, x \in 1..2 : recent[a][x].asset > 0

\* C17: nothing is done towards a download before a status poll has returned
\* ready; the poll loop is left at the first poll that returns ready; and what
\* a poll returns is decided by the answer to that poll alone.
C17_DownloadAfterReadyPoll ==
    /\ DownloadBegun => ready /\ polls >= 1
    /\ pc = "poll" => ~ready
    /\ AfterStatus =>
         (ready <=> /\ response.status_code = HTTP_OK
                    /\ \A q \in 1..Len(response.clips) :
                         response.clips[q].status \in {"streaming", "complete"})

C17_Witness ==
    /\ pc = "done"
    /\ polls = 2
    /\ recent[suno][1].op = "renew" /\ recent[suno][1].asset = 1
    /\ downloaded = << "s1" >>

\* C18: the poll loop has no bound: while it waits, another status poll can
\* always be made; a poll that returns not ready, or whose request fails, leaves
\* main in the loop with nothing done towards a download; and if from some
\* point on every poll returns ready, the loop is left and the download loop
\* runs to its end, having made its attempt for every asset id.
C18_PollUntilReady ==
    /\ [](pc = "poll" => ENABLED (\E r \in StatusResponses(song_ids.ids) : CheckStatus(r)))
    /\ [][ (pc = "poll" /\ (~ready' \/ response'.status_code # HTTP_OK)) =>
             (pc' = "poll" /\ ~DownloadBegun') ]_vars
    /\ (<>[][ pc = "poll" => ready' ]_vars) =>
         (pc = "poll" ~> (pc = "done" /\ j = Len(song_ids.ids)))

C18_Witness ==
    /\ pc = "done"
    /\ polls = MaxPolls
    /\ StatusFailed(recent[suno][1]) \/ issued[suno] > 1
    /\ j = 2
    /\ recent[suno][2].asset = 2

\* a job exists: the fallback loop ended with asset ids
HasJob == pc \in {"poll", "dl_keep_alive", "dl_song", "dl_audio", "done"}

\* the generate call that returned the job's asset ids
IsOwnerCall(m) ==
    /\ m \in 1..Len(gen_calls)
    /\ IsSuccess(gen_calls[m].response)
    /\ ListIds(gen_calls[m].response.clips) = song_ids
    /\ \A q \in (m + 1)..Len(gen_calls) : ~IsSuccess(gen_calls[q].response)

\* C19: every status poll, download-time renewal and metadata fetch of a job
\* is issued on the session whose generate call returned the job's asset
\* ids, wherever that session stands in the pool.
C19_JobStaysOnOwner ==
    /\ HasJob => \E m \in 1..Len(gen_calls) : IsOwnerCall(m) /\ suno = gen_calls[m].s
    /\ \A a \in Accounts, x \in 1..2 :
         JobCall(recent[a][x]) =>
            \E m \in 1..Len(gen_calls) : IsOwnerCall(m) /\ a = gen_calls[m].s

C19_Witness ==
    /\ pc = "done"
    /\ Len(gen_calls) = 2
    /\ IsOwnerCall(2)
    /\ recent[2][2].op = "fetch"
    /\ ~JobCall(recent[1][2])

\* a generate call answered 200 with an empty list of clips
IsEmptySuccess(r) == r.status_code = HTTP_OK /\ r.has_clips /\ r.clips = <<>>

\* C20: a generate call answered 200 with no asset id does not end the
\* fallback loop: the next session of the pool is tried, and when the last
\* session answers so and none returned ids the run ends as
\* AllSessionsExhausted, with no poll and no download.
C20_EmptySuccessIsNoWin ==
    \A m \in 1..Len(gen_calls) :
        IsEmptySuccess(gen_calls[m].response) =>
            IF m < Len(suno_sessions)
              THEN \/ Len(gen_calls) = m /\ pc = "generate" /\ k = m + 1
                   \/ Len(gen_calls) > m /\ gen_calls[m + 1].s = suno_sessions[m + 1]
              ELSE /\ Len(gen_calls) = m
                   /\ pc = "exhausted"
                   /\ polls = 0 /\ j = 0 /\ ~DownloadBegun

C20_Witness ==
    /\ Len(gen_calls) = 2
    /\ \A m \in 1..2 : IsEmptySuccess(gen_calls[m].response)
    /\ pc = "exhausted"

====
